---- MODULE Spec2Model ----
(***************************************************************************)
(* Model of the item service of main.py: one SQLite table "items" reached  *)
(* through SQLAlchemy sessions, and the five FastAPI handlers over it.     *)
(*                                                                         *)
(* Text and float values are modelled by their textual form; Python None   *)
(* and SQL NULL are the token None.  A request field is Absent when the    *)
(* parameter is not part of the request.                                   *)
(***************************************************************************)
EXTENDS Integers, FiniteSets, Sequences, TLC

\* ---- bounds of the model ----
MaxId == 2          \* creates stop once the next rowid would exceed it
MaxRows == 2        \* creates stop once the table holds that many rows
MaxClock == 1       \* largest value of the clock read by datetime.utcnow

\* ---- values ----
None == "None"
Absent == "Absent"
NaN == "nan"
Bad == "abc"
Names == {"Pen", "Ink"}
Descriptions == {"blue"}
Prices == {"0.0", "1.5", NaN}
Sessions == {1, 2}

\* ---- HTTP statuses ----
OK == 200
NotFound == 404
Unprocessable == 422
ServerError == 500

Fields == {"name", "description", "price"}

VARIABLES items, now, issued, last, sess

vars == <<items, now, issued, last, sess>>

\* ---- ItemModel: one row of the table ----
NoRow == [id |-> 0, name |-> None, description |-> None, price |-> None,
          created_at |-> 0]

NoRequest == [name |-> Absent, description |-> Absent, price |-> Absent]

\* Binding a Python float to a SQLite parameter: NaN is stored as NULL.
SqliteBind(v) == IF v = NaN THEN None ELSE v

NotNullOkOff(row) == TRUE

\* nullable=False on name and price, checked by the store on every write.
NotNullOk(row) == row.name # None /\ row.price # None

MaxOf(S) == CHOOSE m \in S : \A x \in S : x <= m

NextRowidCount(t) == Cardinality(t) + 1

\* INTEGER PRIMARY KEY without the AUTOINCREMENT keyword: the store assigns
\* one more than the largest rowid the table holds at the time.
NextRowid(t) == IF t = {} THEN 1 ELSE MaxOf({r.id : r \in t}) + 1

QueryNone(t, id) == {}

QueryAny(t, id) == IF t = {} THEN {} ELSE {CHOOSE r \in t : TRUE}

\* db.query(ItemModel).filter(ItemModel.id == item_id): the matching rows.
Query(t, id) == {r \in t : r.id = id}

\* .first(): one row of a non-empty result.
First(S) == CHOOSE r \in S : TRUE

\* db.refresh(db_item): the row of that primary key, read again.
Refresh(t, id) == {r \in t : r.id = id}

\* ---- request schemas ----
CreateParams == [name : Names \cup {Absent},
                 description : Descriptions \cup {Absent},
                 price : Prices \cup {Absent, Bad}]

UpdateParams == [name : Names \cup {Absent, None},
                 description : Descriptions \cup {Absent, None},
                 price : Prices \cup {Absent, None}]

\* get_item_create: name and price are required, price must parse as float.
CreateValid(raw) == raw.name # Absent /\ raw.price # Absent /\ raw.price # Bad

get_item_create(raw) ==
    [name |-> raw.name,
     description |-> IF raw.description = Absent THEN None ELSE raw.description,
     price |-> raw.price]

\* get_item_update: every parameter defaults to None.
get_item_update(raw) ==
    [name |-> IF raw.name = Absent THEN None ELSE raw.name,
     description |-> IF raw.description = Absent THEN None ELSE raw.description,
     price |-> IF raw.price = Absent THEN None ELSE raw.price]

Response(op, id, raw, status, body, before, fresh) ==
    [op |-> op, id |-> id, raw |-> raw, status |-> status, body |-> body,
     before |-> before, fresh |-> fresh]

Idle == Response("idle", 0, NoRequest, 0, NoRow, {}, TRUE)

IdleSession == [pc |-> "idle", id |-> 0, raw |-> NoRequest, loaded |-> NoRow]

Init ==
    /\ items = {}
    /\ now = 0
    /\ issued = {}
    /\ last = Idle
    /\ sess = [s \in Sessions |-> IdleSession]

\* ---- POST /items/ ----
CreatedStatus == OK

\* The row written by create_item, before the store assigns the id.
NewRow(item, ts) ==
    [id |-> 0, name |-> item.name, description |-> item.description,
     price |-> SqliteBind(item.price), created_at |-> ts]

create_item(t, item, ts) ==
    LET row == [NewRow(item, ts) EXCEPT !.id = NextRowid(t)] IN
    IF NotNullOk(row)
    THEN LET t2 == t \cup {row} IN
         [status |-> CreatedStatus, body |-> First(Refresh(t2, row.id)),
          items |-> t2]
    ELSE [status |-> ServerError, body |-> NoRow, items |-> t]

CreateItem ==
    /\ last = Idle
    /\ Cardinality(items) < MaxRows
    /\ NextRowid(items) <= MaxId
    /\ \E raw \in CreateParams, ts \in now..MaxClock :
        IF CreateValid(raw)
        THEN LET res == create_item(items, get_item_create(raw), ts) IN
             /\ items' = res.items
             /\ now' = ts
             /\ issued' = IF res.status = CreatedStatus
                          THEN issued \cup {res.body.id} ELSE issued
             /\ last' = Response("create", 0, raw, res.status, res.body, items,
                                 res.body.id \notin issued)
        ELSE /\ last' = Response("create", 0, raw, Unprocessable, NoRow, items,
                                 TRUE)
             /\ UNCHANGED <<items, now, issued>>
    /\ UNCHANGED sess

\* ---- GET /items/ ----
read_items(t) == t

ReadItems ==
    /\ last = Idle
    /\ last' = Response("list", 0, NoRequest, OK, NoRow, read_items(items), TRUE)
    /\ UNCHANGED <<items, now, issued, sess>>

\* ---- GET /items/{item_id} ----
read_item(t, id) ==
    LET q == Query(t, id) IN
    IF q = {} THEN [status |-> NotFound, body |-> NoRow]
    ELSE [status |-> OK, body |-> First(q)]

ReadItem ==
    /\ last = Idle
    /\ \E id \in 1..MaxId :
        LET res == read_item(items, id) IN
        last' = Response("read", id, NoRequest, res.status, res.body, items, TRUE)
    /\ UNCHANGED <<items, now, issued, sess>>

\* ---- PUT /items/{item_id} ----
\* The three guarded assignments to the loaded object.
Assign(loaded, item) ==
    [loaded EXCEPT
        !.name = IF item.name # None THEN item.name ELSE @,
        !.description = IF item.description # None THEN item.description ELSE @,
        !.price = IF item.price # None THEN item.price ELSE @]

\* The attributes whose value differs from the loaded one: the only columns
\* the session's flush puts in its UPDATE statement.
Changed(loaded, assigned) == {f \in Fields : assigned[f] # loaded[f]}

\* UPDATE items SET <changed columns> WHERE items.id = ?, on one row.
UpdateRow(row, assigned, ch) ==
    [row EXCEPT
        !.name = IF "name" \in ch THEN assigned.name ELSE @,
        !.description = IF "description" \in ch THEN assigned.description ELSE @,
        !.price = IF "price" \in ch THEN SqliteBind(assigned.price) ELSE @]

\* db.commit() and db.refresh(db_item) of update_item, for an object that was
\* loaded as `loaded` and a table that is now t.
FlushCommit(t, loaded, item) ==
    LET assigned == Assign(loaded, item)
        ch == Changed(loaded, assigned)
        target == Query(t, loaded.id)
        failed == [status |-> ServerError, body |-> NoRow, items |-> t]
    IN
    IF ch = {}
    THEN IF Refresh(t, loaded.id) = {} THEN failed
         ELSE [status |-> OK, body |-> First(Refresh(t, loaded.id)), items |-> t]
    ELSE IF target = {} THEN failed
    ELSE LET row == UpdateRow(First(target), assigned, ch) IN
         IF ~NotNullOk(row) THEN failed
         ELSE LET t2 == (t \ target) \cup {row} IN
              [status |-> OK, body |-> First(Refresh(t2, loaded.id)),
               items |-> t2]

update_item(t, id, item) ==
    LET q == Query(t, id) IN
    IF q = {} THEN [status |-> NotFound, body |-> NoRow, items |-> t]
    ELSE FlushCommit(t, First(q), item)

UpdateItem ==
    /\ last = Idle
    /\ \E id \in 1..MaxId, raw \in UpdateParams :
        LET res == update_item(items, id, get_item_update(raw)) IN
        /\ items' = res.items
        /\ last' = Response("update", id, raw, res.status, res.body, items, TRUE)
    /\ UNCHANGED <<now, issued, sess>>

\* ---- DELETE /items/{item_id} ----
DeleteRowsFrom(t, row) == {r \in t : r.id < row.id}

\* db.delete(db_item): DELETE FROM items WHERE items.id = ?
DeleteRows(t, row) == {r \in t : r.id # row.id}

delete_item(t, id) ==
    LET q == Query(t, id) IN
    IF q = {} THEN [status |-> NotFound, body |-> NoRow, items |-> t]
    ELSE [status |-> OK, body |-> First(q), items |-> DeleteRows(t, First(q))]

DeleteItem ==
    /\ last = Idle
    /\ \E id \in 1..MaxId :
        LET res == delete_item(items, id) IN
        /\ items' = res.items
        /\ last' = Response("delete", id, NoRequest, res.status, res.body, items,
                            TRUE)
    /\ UNCHANGED <<now, issued, sess>>

\* ---- get_db: the session is closed once the response has been produced ----
Close ==
    /\ last # Idle
    /\ last' = Idle
    /\ UNCHANGED <<items, now, issued, sess>>

\* ---- PUT /items/{item_id} served by concurrent sessions ----
\* The handlers run in the framework's thread pool, each with a session of its
\* own.  The SELECT of update_item does not open a transaction in the store,
\* so another session may commit between it and this session's commit.
ConcurrentParams ==
    {raw \in UpdateParams :
        raw.name = Absent /\ raw.description # None /\ raw.price # None}

\* The query of update_item, and the 404 answer when it finds no row.
UpdateQuery(s) ==
    /\ last = Idle
    /\ sess[s].pc = "idle"
    /\ \E id \in 1..MaxId, raw \in ConcurrentParams :
        LET q == Query(items, id) IN
        IF q = {}
        THEN /\ last' = Response("update", id, raw, NotFound, NoRow, items, TRUE)
             /\ UNCHANGED sess
        ELSE /\ sess' = [sess EXCEPT ![s] =
                            [pc |-> "loaded", id |-> id, raw |-> raw,
                             loaded |-> First(q)]]
             /\ UNCHANGED last
    /\ UNCHANGED <<items, now, issued>>

\* The assignments, commit and refresh of update_item.
UpdateCommit(s) ==
    /\ last = Idle
    /\ sess[s].pc = "loaded"
    /\ LET res == FlushCommit(items, sess[s].loaded,
                              get_item_update(sess[s].raw)) IN
        /\ items' = res.items
        /\ last' = Response("update", sess[s].id, sess[s].raw, res.status,
                            res.body, items, TRUE)
    /\ sess' = [sess EXCEPT ![s] = IdleSession]
    /\ UNCHANGED <<now, issued>>

Next == CreateItem \/ ReadItems \/ ReadItem \/ UpdateItem \/ DeleteItem \/ Close

Spec == Init /\ [][Next]_vars

\* The tables a first successful create leaves behind.
InitConcurrent ==
    /\ items \in {create_item({}, get_item_create(raw), 0).items :
                    raw \in {p \in CreateParams :
                                CreateValid(p) /\ p.price # NaN}}
    /\ now = 0
    /\ issued = {1}
    /\ last = Idle
    /\ sess = [s \in Sessions |-> IdleSession]

NextConcurrent ==
    \/ DeleteItem
    \/ \E s \in Sessions : UpdateQuery(s)
    \/ \E s \in Sessions : UpdateCommit(s)
    \/ Close

SpecConcurrent == InitConcurrent /\ [][NextConcurrent]_vars

\* ---- properties ----
\* The rows of a table under an id, and the one row of an id that has one.
WithId(t, id) == {r \in t : r.id = id}

RowOf(t, id) == CHOOSE r \in t : r.id = id

UpdateOfStored == last.op = "update" /\ WithId(last.before, last.id) # {}

\* C1: an update of a stored item succeeds, gives exactly the supplied fields
\* their supplied values and leaves every other field of the item (id and
\* created_at included) and every other item as they were.
C1_UpdateAppliesExactlySupplied ==
    UpdateOfStored =>
        /\ last.status = OK
        /\ WithId(items, last.id) # {}
        /\ LET old == RowOf(last.before, last.id)
               new == RowOf(items, last.id)
           IN /\ \A f \in Fields :
                    new[f] = IF last.raw[f] = Absent THEN old[f] ELSE last.raw[f]
              /\ new.id = old.id
              /\ new.created_at = old.created_at
              /\ last.body = new
        /\ items \ WithId(items, last.id) = last.before \ WithId(last.before, last.id)

\* C2: in a successful update an absent field keeps the stored value, while a
\* description supplied as null is stored as null and a price supplied as zero
\* is stored as zero.
C2_AbsentDiffersFromNull ==
    (UpdateOfStored /\ last.status = OK) =>
        LET old == RowOf(last.before, last.id)
            new == RowOf(items, last.id)
        IN /\ \A f \in Fields : last.raw[f] = Absent => new[f] = old[f]
           /\ last.raw.description = None => new.description = None
           /\ last.raw.price = "0.0" => new.price = "0.0"

CreateSucceeded == last.op = "create" /\ last.status = CreatedStatus

\* C3: no two stored items share an id, and a successful create returns the
\* submitted name, description and price under an id that no item stored at
\* the time of the create has.
C3_UniqueIds ==
    /\ \A r1, r2 \in items : r1.id = r2.id => r1 = r2
    /\ CreateSucceeded =>
        /\ last.body.name = last.raw.name
        /\ last.body.description =
              (IF last.raw.description = Absent THEN None ELSE last.raw.description)
        /\ last.body.price = last.raw.price
        /\ \A r \in last.before : r.id # last.body.id

C3_Witness ==
    /\ CreateSucceeded
    /\ last.before # {}
    /\ last.raw.description # Absent

DeleteSucceeded == last.op = "delete" /\ last.status = OK

\* C4: a successful delete returns the item as stored just before it, removes
\* that item and no other, and a get of the same id right after it is NotFound.
C4_DeleteReturnsSnapshot ==
    DeleteSucceeded =>
        /\ last.body \in last.before
        /\ last.body.id = last.id
        /\ items = last.before \ {last.body}
        /\ read_item(items, last.id).status = NotFound

C4_Witness == DeleteSucceeded /\ items # {}

C6_LastCommitWins ==
    (last.op = "update" /\ last.status = OK) =>
        \A f \in Fields :
            last.raw[f] \notin {Absent, None} =>
                RowOf(items, last.id)[f] = last.raw[f]

\* C7: a successful create is answered 201 with the created item; a create
\* that fails validation is answered 422 and stores nothing.
C7_CreateStatus ==
    last.op = "create" =>
        /\ (CreateValid(last.raw) /\ last.body \in items) => last.status = 201
        /\ ~CreateValid(last.raw) =>
              (last.status = Unprocessable /\ items = last.before)

\* C8: a get of the id a create returned, before anything else changes the
\* item, returns the item the create returned, field for field.
C8_GetAfterCreate ==
    CreateSucceeded =>
        read_item(items, last.body.id) = [status |-> OK, body |-> last.body]

C8_Witness ==
    /\ CreateSucceeded
    /\ last.before # {}
    /\ last.body.created_at > 0

\* C9: every stored item has a name and a price, whatever nulls an update
\* supplied for them.
C9_NameAndPricePresent ==
    \A r \in items : r.name # None /\ r.price # None

C9_Witness ==
    /\ UpdateOfStored
    /\ last.raw.name = None
    /\ last.raw.price = None
    /\ last.status = OK

\* C10: a create never returns an id that an earlier create returned, deleted
\* items included.
C10_IdNeverReused == CreateSucceeded => last.fresh
====
